---- MODULE Spec2Model ----
(***************************************************************************)
(* A model of ordereddict.Dict (src/ordereddict.go): an insertion-ordered  *)
(* dictionary whose Delete leaves a tombstone in the backing slice and     *)
(* whose appends compact the slice once ten tombstones are outstanding.    *)
(*                                                                         *)
(* A Dict is a record [items, store, case_insensitive, default_value].     *)
(* items is the backing slice (a sequence of [Key, Value]); store is the   *)
(* Go map from normalized key to the 0-based index into items, so the      *)
(* entry of index i is items[i + 1].                                       *)
(***************************************************************************)
EXTENDS Integers, Sequences, FiniteSets, TLC

\* ------------------------------------------------------------------ bounds

\* Cap on len(items) in the guards of the appending operations of Spec, for
\* the stores that are not about to compact.
MaxItems == 4
\* Values a caller stores are the integers 1..NumValues, and nil.
NumValues == 2
\* Cap on len(items) of either store before a merge, in the guards of SpecMerge.
MaxMergeItems == 2
\* Cap on len(items) in the guards of SpecConc.
MaxConcItems == 2
\* Cap on len(items) in the guards of SpecCodec.
MaxCodecItems == 2
\* The depth of nested MarshalJSON calls at which the goroutine's stack is
\* taken to be exhausted (an unbounded recursion never returns).
MaxDepth == 3
\* Cap on len(items) in the guards of SpecGetters.
MaxGetterItems == 2
\* Cap on len(items) of the store a document is decoded into, in the guards
\* of SpecDecode, and on the pairs of a document.
MaxDecodeItems == 2
\* Cap on len(items) of the receiver and of the copy, in the guards of SpecCopy.
MaxCopyItems == 2
MaxDocPairs == 3
\* Cap on the calls the goroutines of SpecLock begin, both together.
MaxCalls == 2

\* ------------------------------------------------------------------ values

\* Every value is a record [kind, n]: the dynamic type and a payload.
Val(kind, n) == [kind |-> kind, n |-> n]

\* &Deleted: the address of the package variable Deleted, the tombstone mark.
DELETED == Val("deleted", 0)

\* The nil interface value.
NIL == Val("nil", 0)

\* The literal keys callers use, and strings.ToLower on them.
KeyUniverse == {"a", "A", "b"}

ToLower(key) ==
  CASE key = "A" -> "a"
    [] key = "B" -> "b"
    [] OTHER -> key

\* The values callers store.
ValueUniverse == {Val("int", i) : i \in 1..NumValues} \cup {NIL}

\* The values callers configure as the default: nil (none) or an int 0.
DefaultUniverse == {NIL, Val("int", 0)}

\* ------------------------------------------------------------------ Go maps

\* m[k] = v on a Go map.
MapSet(m, k, v) == [x \in (DOMAIN m) \cup {k} |-> IF x = k THEN v ELSE m[x]]

\* delete(m, k) on a Go map: a no-op when k is not a key of m.
MapDelete(m, k) == [x \in (DOMAIN m) \ {k} |-> m[x]]

\* make(map[string]int)
EmptyMap == [x \in {} |-> 0]

\* ------------------------------------------------------------------ Dict

Item(key, value) == [Key |-> key, Value |-> value]

IsDeleted(item) == item.Value = DELETED

NewDict ==
  [items |-> <<>>, store |-> EmptyMap, case_insensitive |-> FALSE,
   default_value |-> NIL]

\* &Dict{case_insensitive: true, store: make(map[string]int)}
NewCaseInsensitiveDict == [NewDict EXCEPT !.case_insensitive = TRUE]

\* A getKey that never folds the case.
getKeyNoFold(d, key) == key

getKey(d, key) == IF d.case_insensitive THEN ToLower(key) ELSE key

SetDefault(d, value) == [d EXCEPT !.default_value = value]

\* The entries of s from position i on that are not deleted, in order: the
\* loop "for _, i := range self.items { if i.IsDeleted() { continue } ... }".
RECURSIVE LiveFrom(_, _)
LiveFrom(s, i) ==
  IF i > Len(s) THEN <<>>
  ELSE IF IsDeleted(s[i]) THEN LiveFrom(s, i + 1)
  ELSE <<s[i]>> \o LiveFrom(s, i + 1)

\* The compaction threshold: len(items) - len(store) < 10 returns early.
CompactThreshold == 10

\* A maybeCompact that lets one more deletion through before it compacts.
maybeCompactLate(d) ==
  IF Len(d.items) - Cardinality(DOMAIN d.store) <= CompactThreshold
  THEN d
  ELSE LET new_items == LiveFrom(d.items, 1)
           norm(i) == getKey(d, new_items[i].Key)
           new_store ==
             [nk \in {norm(i) : i \in 1..Len(new_items)} |->
                (CHOOSE i \in 1..Len(new_items) :
                   /\ norm(i) = nk
                   /\ \A j \in 1..Len(new_items) : norm(j) = nk => j <= i) - 1]
       IN [d EXCEPT !.store = new_store, !.items = new_items]

maybeCompact(d) ==
  IF Len(d.items) - Cardinality(DOMAIN d.store) < CompactThreshold
  THEN d
  ELSE LET new_items == LiveFrom(d.items, 1)
           norm(i) == getKey(d, new_items[i].Key)
           \* new_store[norm_key] = len(new_items): a later entry overwrites
           new_store ==
             [nk \in {norm(i) : i \in 1..Len(new_items)} |->
                (CHOOSE i \in 1..Len(new_items) :
                   /\ norm(i) = nk
                   /\ \A j \in 1..Len(new_items) : norm(j) = nk => j <= i) - 1]
       IN [d EXCEPT !.store = new_store, !.items = new_items]

\* Delete looks the entry up under the normalized key and removes the
\* LITERAL key from the map (delete(self.store, key)).
Delete(d, key) ==
  LET nk == getKey(d, key) IN
  IF nk \in DOMAIN d.store
  THEN LET idx == d.store[nk] IN
       [d EXCEPT !.store = MapDelete(d.store, key),
                 !.items[idx + 1].Value = DELETED]
  ELSE d

\* An Update that appends an entry also when the key is in the index.
UpdateAlwaysAppends(d, key, value) ==
  LET norm_key == getKey(d, key)
  IN maybeCompact(
       [d EXCEPT !.store = MapSet(d.store, norm_key, Len(d.items)),
                 !.items = Append(d.items, Item(key, value))])

Update(d, key, value) ==
  LET norm_key == getKey(d, key) IN
  IF norm_key \in DOMAIN d.store
  THEN [d EXCEPT !.items[d.store[norm_key] + 1].Value = value]
  ELSE maybeCompact(
         [d EXCEPT !.store = MapSet(d.store, norm_key, Len(d.items)),
                   !.items = Append(d.items, Item(key, value))])

\* A set that forgets to mark the previous entry of the key as deleted.
setKeepsOldEntry(d, key, value) ==
  LET norm_key == getKey(d, key)
  IN maybeCompact(
       [d EXCEPT !.store = MapSet(d.store, norm_key, Len(d.items)),
                 !.items = Append(d.items, Item(key, value))])

\* A set that writes the new entry under the literal key of the entry it
\* replaces.
setKeepsFirstCasing(d, key, value) ==
  LET norm_key == getKey(d, key)
      pres == norm_key \in DOMAIN d.store
      marked == IF pres
                THEN [d.items EXCEPT ![d.store[norm_key] + 1].Value = DELETED]
                ELSE d.items
      literal == IF pres THEN d.items[d.store[norm_key] + 1].Key ELSE key
  IN maybeCompact(
       [d EXCEPT !.store = MapSet(d.store, norm_key, Len(d.items)),
                 !.items = Append(marked, Item(literal, value))])

\* Set always updates key order to the end.
set(d, key, value) ==
  LET norm_key == getKey(d, key)
      marked == IF norm_key \in DOMAIN d.store
                THEN [d.items EXCEPT ![d.store[norm_key] + 1].Value = DELETED]
                ELSE d.items
  IN maybeCompact(
       [d EXCEPT !.store = MapSet(d.store, norm_key, Len(d.items)),
                 !.items = Append(marked, Item(key, value))])

Set(d, key, value) == set(d, key, value)

DictLen(d) == Cardinality(DOMAIN d.store)

\* Get returns the pair (value, present).
Get(d, key) ==
  LET nk == getKey(d, key) IN
  IF nk \notin DOMAIN d.store
  THEN IF d.default_value # NIL
       THEN [value |-> d.default_value, pres |-> FALSE]
       ELSE [value |-> NIL, pres |-> FALSE]
  ELSE [value |-> d.items[d.store[nk] + 1].Value, pres |-> TRUE]

Items(d) == LiveFrom(d.items, 1)

RECURSIVE KeysFrom(_, _)
KeysFrom(s, i) ==
  IF i > Len(s) THEN <<>>
  ELSE IF IsDeleted(s[i]) THEN KeysFrom(s, i + 1)
  ELSE <<s[i].Key>> \o KeysFrom(s, i + 1)

Keys(d) == KeysFrom(d.items, 1)

RECURSIVE ValuesFrom(_, _)
ValuesFrom(s, i) ==
  IF i > Len(s) THEN <<>>
  ELSE IF IsDeleted(s[i]) THEN ValuesFrom(s, i + 1)
  ELSE <<s[i].Value>> \o ValuesFrom(s, i + 1)

Values(d) == ValuesFrom(d.items, 1)

\* for _, item := range its { self.Update(item.Key, item.Value) }
RECURSIVE UpdateAll(_, _)
UpdateAll(d, its) ==
  IF its = <<>> THEN d
  ELSE UpdateAll(Update(d, Head(its).Key, Head(its).Value), Tail(its))

\* A MergeFrom that calls Update, not Set: common keys keep their position.
MergeFromByUpdate(d, o) == UpdateAll(d, Items(o))

\* for _, item := range its { self.Set(item.Key, item.Value) }
RECURSIVE SetAll(_, _)
SetAll(d, its) ==
  IF its = <<>> THEN d
  ELSE SetAll(Set(d, Head(its).Key, Head(its).Value), Tail(its))

\* self.MergeFrom(other): other.Items() is taken first, then every item is Set.
MergeFrom(d, o) == SetAll(d, Items(o))

\* ------------------------------------------------------------------ encoder

\* The bytes of a document are modelled as a sequence of lexical units
\* [t, v]: the one-byte units { } [ ] , : and the literals (a string, a
\* number, a bool, null), each literal one unit.
Unit(t, v) == [t |-> t, v |-> v]
LBrace == Unit("{", 0)
RBrace == Unit("}", 0)
LBracket == Unit("[", 0)
RBracket == Unit("]", 0)
Comma == Unit(",", 0)
Colon == Unit(":", 0)
Null == Unit("null", 0)

OneByte(u) == u.t \in {"{", "}", "[", "]", ",", ":"}

\* buf.Truncate(buf.Len() - 1): the last byte goes.  Every buffer MarshalJSON
\* truncates ends in a one-byte unit.
TruncateLastByte(buf) ==
  IF buf # <<>> /\ OneByte(buf[Len(buf)]) THEN SubSeq(buf, 1, Len(buf) - 1)
  ELSE buf

\* time.Time values are instants 1, 2, ...; json.Marshal writes instant 1 as
\* the RFC 3339 string below.
TimeString(instant) == "2023-01-02T03:04:05Z"

\* The numbers of the model are counted in halves, so that 3 is 1.5: an
\* integer n is 2 * n halves, and a float64 holds any number of halves.  A
\* number literal carries the halves it denotes; it is written with a
\* fraction exactly when the halves are odd (strconv writes 1.0 as "1").
Halves(v) == IF v.kind = "float64" THEN v.n ELSE 2 * v.n

IsNumber(v) == v.kind \in {"int", "int64", "uint64", "float64"}

RECURSIVE Marshal(_, _, _)
RECURSIVE MarshalArray(_, _, _)
RECURSIVE MarshalJSON(_, _, _, _)

\* MarshalJSON without the check for a back reference.
MarshalJSONNoGuard(d, isRoot, root, depth) ==
  IF depth > MaxDepth THEN [buf |-> <<>>, err |-> FALSE, overflow |-> TRUE]
  ELSE
    LET its == Items(d)
        Emit[i \in 0..Len(its)] ==
          IF i = 0 THEN [buf |-> <<LBrace>>, overflow |-> FALSE]
          ELSE LET item == its[i]
                   prev == Emit[i - 1]
                   m == Marshal(item.Value, root, depth)
               IN IF prev.overflow THEN prev
                  ELSE IF m.overflow THEN [buf |-> <<>>, overflow |-> TRUE]
                  ELSE [buf |-> prev.buf \o <<Unit("string", item.Key), Colon>>
                                  \o (IF m.err THEN <<Null>> ELSE m.buf)
                                  \o <<Comma>>,
                        overflow |-> FALSE]
        body == Emit[Len(its)]
        cut == IF Len(d.items) > 0 THEN TruncateLastByte(body.buf)
               ELSE body.buf
    IN IF body.overflow THEN [buf |-> <<>>, err |-> FALSE, overflow |-> TRUE]
       ELSE [buf |-> cut \o <<RBrace>>, err |-> FALSE, overflow |-> FALSE]

\* d.MarshalJSON(), the call number depth on the stack.  isRoot: d is the
\* store the "self" pointers point to, root.  Returns [buf, err, overflow];
\* err is always nil (FALSE).
MarshalJSON(d, isRoot, root, depth) ==
  IF depth > MaxDepth THEN [buf |-> <<>>, err |-> FALSE, overflow |-> TRUE]
  ELSE
    LET its == Items(d)
        \* the for loop over self.Items(): Emit[i] is buf after item i
        Emit[i \in 0..Len(its)] ==
          IF i = 0 THEN [buf |-> <<LBrace>>, overflow |-> FALSE]
          ELSE LET item == its[i]
                   prev == Emit[i - 1]
                   m == Marshal(item.Value, root, depth)
               IN IF prev.overflow THEN prev
                  \* subdict, ok := item.Value.(*Dict); ok && subdict == self
                  ELSE IF item.Value.kind = "self" /\ isRoot THEN prev
                  ELSE IF m.overflow THEN [buf |-> <<>>, overflow |-> TRUE]
                  ELSE [buf |-> prev.buf \o <<Unit("string", item.Key), Colon>>
                                  \o (IF m.err THEN <<Null>> ELSE m.buf)
                                  \o <<Comma>>,
                        overflow |-> FALSE]
        body == Emit[Len(its)]
        \* if len(self.items) > 0 { buf.Truncate(buf.Len() - 1) }
        cut == IF Len(d.items) > 0 THEN TruncateLastByte(body.buf)
               ELSE body.buf
    IN IF body.overflow THEN [buf |-> <<>>, err |-> FALSE, overflow |-> TRUE]
       ELSE [buf |-> cut \o <<RBrace>>, err |-> FALSE, overflow |-> FALSE]

\* The validity check json.Marshal makes of the bytes a Marshaler returns:
\* ScanValue reads one JSON value off the front of s and returns what is
\* left, [ok, rest].
RECURSIVE ScanValue(_)
RECURSIVE ScanMembers(_)
RECURSIVE ScanElements(_)

ScanValue(s) ==
  LET bad == [ok |-> FALSE, rest |-> <<>>] IN
  IF s = <<>> THEN bad
  ELSE CASE Head(s).t \in {"string", "number", "bool", "null"} ->
              [ok |-> TRUE, rest |-> Tail(s)]
         [] Head(s).t = "{" ->
              IF Tail(s) # <<>> /\ Head(Tail(s)).t = "}"
              THEN [ok |-> TRUE, rest |-> Tail(Tail(s))]
              ELSE ScanMembers(Tail(s))
         [] Head(s).t = "[" ->
              IF Tail(s) # <<>> /\ Head(Tail(s)).t = "]"
              THEN [ok |-> TRUE, rest |-> Tail(Tail(s))]
              ELSE ScanElements(Tail(s))
         [] OTHER -> bad

\* "key" : value, then "," and more members, or "}".
ScanMembers(s) ==
  LET bad == [ok |-> FALSE, rest |-> <<>>] IN
  IF Len(s) < 2 \/ s[1].t # "string" \/ s[2].t # ":" THEN bad
  ELSE LET v == ScanValue(SubSeq(s, 3, Len(s))) IN
       IF ~v.ok \/ v.rest = <<>> THEN bad
       ELSE IF Head(v.rest).t = "," THEN ScanMembers(Tail(v.rest))
       ELSE IF Head(v.rest).t = "}" THEN [ok |-> TRUE, rest |-> Tail(v.rest)]
       ELSE bad

\* value, then "," and more elements, or "]".
ScanElements(s) ==
  LET bad == [ok |-> FALSE, rest |-> <<>>]
      v == ScanValue(s)
  IN IF ~v.ok \/ v.rest = <<>> THEN bad
     ELSE IF Head(v.rest).t = "," THEN ScanElements(Tail(v.rest))
     ELSE IF Head(v.rest).t = "]" THEN [ok |-> TRUE, rest |-> Tail(v.rest)]
     ELSE bad

ValidValue(buf) == ScanValue(buf).ok /\ ScanValue(buf).rest = <<>>

\* json.Marshal(v) as MarshalJSON calls it: [buf, err, overflow].
Marshal(v, root, depth) ==
  LET ok(buf) == [buf |-> buf, err |-> FALSE, overflow |-> FALSE]
      failed == [buf |-> <<>>, err |-> TRUE, overflow |-> FALSE]
  IN CASE v.kind = "nil" -> ok(<<Null>>)
       [] IsNumber(v) -> ok(<<Unit("number", Halves(v))>>)
       [] v.kind = "string" -> ok(<<Unit("string", v.n)>>)
       [] v.kind = "bool" -> ok(<<Unit("bool", v.n)>>)
       [] v.kind = "time" -> ok(<<Unit("string", TimeString(v.n))>>)
       [] v.kind = "array" -> MarshalArray(v.n, root, depth)
       \* a *Dict is a json.Marshaler: its MarshalJSON is called and the
       \* bytes it returns are checked
       [] v.kind = "dict" ->
            LET m == MarshalJSON(v.n, FALSE, root, depth + 1)
            IN IF m.overflow \/ m.err THEN m
               ELSE IF ValidValue(m.buf) THEN m ELSE failed
       [] v.kind = "self" ->
            LET m == MarshalJSON(root, TRUE, root, depth + 1)
            IN IF m.overflow \/ m.err THEN m
               ELSE IF ValidValue(m.buf) THEN m ELSE failed
       \* a func value: json.UnsupportedTypeError
       [] OTHER -> failed

\* json.Marshal of a []interface{}.
MarshalArray(arr, root, depth) ==
  LET Emit[i \in 0..Len(arr)] ==
        IF i = 0 THEN [buf |-> <<LBracket>>, err |-> FALSE, overflow |-> FALSE]
        ELSE LET prev == Emit[i - 1]
                 m == Marshal(arr[i], root, depth)
             IN IF prev.err \/ prev.overflow THEN prev
                ELSE IF m.err \/ m.overflow THEN m
                ELSE [prev EXCEPT !.buf = @ \o (IF i > 1 THEN <<Comma>> ELSE <<>>)
                                            \o m.buf]
      body == Emit[Len(arr)]
  IN IF body.err \/ body.overflow THEN body
     ELSE [body EXCEPT !.buf = @ \o <<RBracket>>]

\* ------------------------------------------------------------------ decoder

\* The strings of the model: what handledelim looks at.
StrLen(str) ==
  CASE str = "2023-01-02T03:04:05Z" -> 20
    [] str = "0000-00-00T00:00:00Z" -> 20
    [] OTHER -> 1

\* t[10]
CharAt10(str) ==
  CASE str = "2023-01-02T03:04:05Z" -> "T"
    [] str = "0000-00-00T00:00:00Z" -> "T"
    [] OTHER -> ""

\* time.Parse(time.RFC3339, t): the instant, or 0 when it is an error.
ParseRFC3339(str) == IF str = "2023-01-02T03:04:05Z" THEN 1 ELSE 0

\* json.NewDecoder(bytes.NewReader(data)): the units still to read, and the
\* number of objects and arrays that are open.
NewDecoder(data) == [rest |-> data, open |-> 0]

\* The units of s after its leading "," and ":".
RECURSIVE SkipSeparators(_)
SkipSeparators(s) ==
  IF s # <<>> /\ Head(s).t \in {",", ":"} THEN SkipSeparators(Tail(s)) ELSE s

\* dec.More(): there is another element in the object or array being read.
More(dec) == dec.rest # <<>> /\ Head(dec.rest).t \notin {"}", "]"}

\* dec.Token(): [tok, err, dec]; err is "" (nil), "EOF" (io.EOF) or
\* "syntax".  A closing delimiter with nothing open is a syntax error.
Token(dec) ==
  LET s == SkipSeparators(dec.rest) IN
  IF s = <<>> THEN [tok |-> Null, err |-> "EOF", dec |-> [dec EXCEPT !.rest = s]]
  ELSE LET u == Head(s) IN
       CASE u.t \in {"{", "["} ->
              [tok |-> u, err |-> "",
               dec |-> [rest |-> Tail(s), open |-> dec.open + 1]]
         [] u.t \in {"}", "]"} ->
              IF dec.open = 0
              THEN [tok |-> u, err |-> "syntax", dec |-> [dec EXCEPT !.rest = s]]
              ELSE [tok |-> u, err |-> "",
                    dec |-> [rest |-> Tail(s), open |-> dec.open - 1]]
         [] OTHER ->
              [tok |-> u, err |-> "", dec |-> [dec EXCEPT !.rest = Tail(s)]]

RECURSIVE parseobject(_, _)
RECURSIVE parsearray(_, _)
RECURSIVE handledelim(_, _)

\* handledelim(token, dec): [res, err, dec].
handledelim(token, dec) ==
  LET ok(v, dc) == [res |-> v, err |-> FALSE, dec |-> dc]
      failed(dc) == [res |-> NIL, err |-> TRUE, dec |-> dc]
  IN CASE token.t = "{" ->
            LET p == parseobject(NewDict, dec)
            IN IF p.err THEN failed(p.dec) ELSE ok(Val("dict", p.d), p.dec)
       [] token.t = "[" ->
            LET p == parsearray(<<>>, dec)
            IN IF p.err THEN failed(p.dec) ELSE ok(Val("array", p.arr), p.dec)
       [] token.t \in {"}", "]"} -> failed(dec)
       [] token.t = "string" ->
            \* does it look like a timestamp in RFC3339
            IF /\ StrLen(token.v) >= 20
               /\ CharAt10(token.v) = "T"
               /\ ParseRFC3339(token.v) # 0
            THEN ok(Val("time", ParseRFC3339(token.v)), dec)
            ELSE ok(Val("string", token.v), dec)
       [] token.t = "number" ->
            \* ParseUint takes the digits only, ParseInt a sign and digits,
            \* ParseFloat any number
            IF token.v % 2 = 0 /\ token.v >= 0
            THEN ok(Val("uint64", token.v \div 2), dec)
            ELSE IF token.v % 2 = 0
            THEN ok(Val("int64", token.v \div 2), dec)
            ELSE ok(Val("float64", token.v), dec)
       [] token.t = "bool" -> ok(Val("bool", token.v), dec)
       \* null: the nil token
       [] OTHER -> ok(NIL, dec)

\* parsearray(dec), arr the elements read so far: [arr, err, dec].
parsearray(arr, dec) ==
  IF More(dec)
  THEN LET t == Token(dec) IN
       IF t.err # "" THEN [arr |-> arr, err |-> TRUE, dec |-> t.dec]
       ELSE LET h == handledelim(t.tok, t.dec) IN
            IF h.err THEN [arr |-> arr, err |-> TRUE, dec |-> h.dec]
            ELSE parsearray(Append(arr, h.res), h.dec)
  ELSE LET t == Token(dec) IN
       [arr |-> arr, err |-> t.err # "" \/ t.tok.t # "]", dec |-> t.dec]

\* A parseobject that inserts by Update: a key that is present keeps its
\* position.
RECURSIVE parseobjectByUpdate(_, _)
parseobjectByUpdate(d, dec) ==
  LET close(dc) ==
        LET t == Token(dc) IN
        [d |-> d, err |-> t.err # "" \/ t.tok.t # "}", dec |-> t.dec]
  IN IF More(dec)
     THEN LET k == Token(dec) IN
          IF k.err # "" \/ k.tok.t # "string"
          THEN [d |-> d, err |-> TRUE, dec |-> k.dec]
          ELSE LET t == Token(k.dec) IN
               IF t.err = "EOF" THEN close(t.dec)
               ELSE IF t.err # "" THEN [d |-> d, err |-> TRUE, dec |-> t.dec]
               ELSE LET h == handledelim(t.tok, t.dec) IN
                    IF h.err THEN [d |-> d, err |-> TRUE, dec |-> h.dec]
                    ELSE parseobjectByUpdate(Update(d, k.tok.v, h.res), h.dec)
     ELSE close(dec)

\* self.parseobject(dec): [d, err, dec].
parseobject(d, dec) ==
  LET close(dc) ==
        LET t == Token(dc) IN
        [d |-> d, err |-> t.err # "" \/ t.tok.t # "}", dec |-> t.dec]
  IN IF More(dec)
     THEN LET k == Token(dec) IN
          IF k.err # "" \/ k.tok.t # "string"
          THEN [d |-> d, err |-> TRUE, dec |-> k.dec]
          ELSE LET t == Token(k.dec) IN
               IF t.err = "EOF" THEN close(t.dec)
               ELSE IF t.err # "" THEN [d |-> d, err |-> TRUE, dec |-> t.dec]
               ELSE LET h == handledelim(t.tok, t.dec) IN
                    IF h.err THEN [d |-> d, err |-> TRUE, dec |-> h.dec]
                    ELSE parseobject(set(d, k.tok.v, h.res), h.dec)
     ELSE close(dec)

\* self.UnmarshalJSON(data): [d, err].
UnmarshalJSON(d, data) ==
  LET t == Token(NewDecoder(data)) IN
  IF t.err # "" \/ t.tok.t # "{" THEN [d |-> d, err |-> TRUE]
  ELSE LET p == parseobject(d, t.dec) IN
       IF p.err THEN [d |-> p.d, err |-> TRUE]
       ELSE [d |-> p.d, err |-> Token(p.dec).err # "EOF"]

\* Printing the dict will always result in a valid JSON document.
\* String() returns the document, or <<"Error">> for fmt.Sprintf("Error: ...").
String(d) ==
  LET m == MarshalJSON(d, TRUE, d, 1) IN
  IF m.err THEN [m EXCEPT !.buf = <<Unit("Error", 0)>>] ELSE m

\* ------------------------------------------------------------------ typed getters

\* A *string is Val("*string", [nil, at]): a nil pointer, or a pointer to the
\* string at.  A []byte is Val("[]byte", s), s the string of its bytes; a
\* []string is Val("[]string", <<s1, ...>>); a []interface{} is
\* Val("array", <<v1, ...>>).
NilStringPtr == Val("*string", [nil |-> TRUE, at |-> ""])
StringPtr(str) == Val("*string", [nil |-> FALSE, at |-> str])

\* What a call that panics returns.
PANIC == Val("panic", 0)

\* to_string(x): [v, ok, panic].  *t on a nil *string is a nil pointer
\* dereference.
to_string(x) ==
  CASE x.kind = "string" -> [v |-> x.n, ok |-> TRUE, panic |-> FALSE]
    [] x.kind = "*string" ->
         IF x.n.nil THEN [v |-> "", ok |-> FALSE, panic |-> TRUE]
         ELSE [v |-> x.n.at, ok |-> TRUE, panic |-> FALSE]
    [] x.kind = "[]byte" -> [v |-> x.n, ok |-> TRUE, panic |-> FALSE]
    [] OTHER -> [v |-> "", ok |-> FALSE, panic |-> FALSE]

\* The typed getters return [ret, ok]; ret is PANIC when the call panics.
GetString(d, key) ==
  LET g == Get(d, key)
      c == to_string(g.value)
  IN IF g.pres /\ c.panic THEN [ret |-> PANIC, ok |-> FALSE]
     ELSE IF g.pres /\ c.ok THEN [ret |-> Val("string", c.v), ok |-> TRUE]
     ELSE [ret |-> Val("string", ""), ok |-> FALSE]

GetBool(d, key) ==
  LET g == Get(d, key)
  IN IF g.pres /\ g.value.kind = "bool"
     THEN [ret |-> Val("bool", g.value.n), ok |-> TRUE]
     ELSE [ret |-> Val("bool", FALSE), ok |-> FALSE]

\* reflect.ValueOf(v).Type().Kind() == reflect.Slice
IsSlice(v) == v.kind \in {"array", "[]string", "[]byte", "[]int"}

\* slice.Index(i).Interface() for i in 0 .. slice.Len() - 1
Elements(v) ==
  CASE v.kind = "array" -> v.n
    [] v.kind = "[]string" -> [i \in 1..Len(v.n) |-> Val("string", v.n[i])]
    [] v.kind = "[]byte" -> [i \in 1..StrLen(v.n) |-> Val("uint8", 120)]
    [] OTHER -> [i \in 1..Len(v.n) |-> Val("int", v.n[i])]

\* The loop of GetStrings over the elements from i on: [v, panic].
RECURSIVE StringsFrom(_, _)
StringsFrom(elems, i) ==
  IF i > Len(elems) THEN [v |-> <<>>, panic |-> FALSE]
  ELSE LET c == to_string(elems[i])
           rest == StringsFrom(elems, i + 1)
       IN IF c.panic THEN [v |-> <<>>, panic |-> TRUE]
          ELSE IF c.ok THEN [rest EXCEPT !.v = <<c.v>> \o @]
          ELSE rest

GetStrings(d, key) ==
  LET g == Get(d, key)
  IN IF g.pres /\ g.value # NIL /\ IsSlice(g.value)
     THEN LET r == StringsFrom(Elements(g.value), 1)
          IN IF r.panic THEN [ret |-> PANIC, ok |-> FALSE]
             ELSE [ret |-> Val("[]string", r.v), ok |-> TRUE]
     ELSE [ret |-> NIL, ok |-> FALSE]

\* The kinds of the type switch of GetInt64.
Int64Kinds ==
  {"int", "int8", "int16", "int32", "int64", "uint8", "uint16", "uint32",
   "uint64", "float32", "float64"}

\* int64(t), for the values of the model, which all fit: a float (counted
\* in halves) is truncated towards zero.
ToInt64(v) ==
  IF v.kind \in {"float32", "float64"}
  THEN (IF v.n >= 0 THEN v.n \div 2 ELSE -((-v.n) \div 2))
  ELSE v.n

GetInt64(d, key) ==
  LET g == Get(d, key)
  IN IF g.pres /\ g.value.kind \in Int64Kinds
     THEN [ret |-> Val("int64", ToInt64(g.value)), ok |-> TRUE]
     ELSE [ret |-> Val("int64", 0), ok |-> FALSE]

\* ------------------------------------------------------------------ the heap
\* Where aliasing matters a store is a pointer: heap.dicts maps the address
\* of a Dict struct to its fields, the slice header items = [ptr, len] and
\* the address store of its map; heap.arrays maps the address of a backing
\* array to its elements (as many as its capacity), heap.maps the address of
\* a map to its contents.  Address 0 is nil.

\* The first address f does not use.
Alloc(f) ==
  CHOOSE n \in 1..(Cardinality(DOMAIN f) + 1) :
    n \notin DOMAIN f /\ \A m \in 1..(n - 1) : m \in DOMAIN f

\* f with f[a] = v.
Store(f, a, v) == [x \in (DOMAIN f) \cup {a} |-> IF x = a THEN v ELSE f[x]]

\* The zero Item, which fills the capacity of an array behind its length.
ZeroItem == Item("", NIL)

\* The elements of the slice sl.
Slice(h, sl) == IF sl.len = 0 THEN <<>> ELSE SubSeq(h.arrays[sl.ptr], 1, sl.len)

\* *p as the record the operators on stores take.
Load(h, p) ==
  [items |-> Slice(h, h.dicts[p].items),
   store |-> h.maps[h.dicts[p].store],
   case_insensitive |-> h.dicts[p].case_insensitive,
   default_value |-> h.dicts[p].default_value]

\* The heap with the array at a, the map at m, the struct at p replaced.
WithArray(h, a, arr) == [h EXCEPT !.arrays = Store(h.arrays, a, arr)]
WithMap(h, m, map) == [h EXCEPT !.maps = Store(h.maps, m, map)]
WithDict(h, p, o) == [h EXCEPT !.dicts = Store(h.dicts, p, o)]

\* self.items[idx].Value = value, idx counted from 0
WithValue(h, p, idx, value) ==
  LET a == h.dicts[p].items.ptr
  IN WithArray(h, a, [h.arrays[a] EXCEPT ![idx + 1] = Item(@.Key, value)])

\* A new array of capacity cap holding elems: [heap, slice].
NewArray(h, elems, cap) ==
  IF cap = 0 THEN [heap |-> h, slice |-> [ptr |-> 0, len |-> 0]]
  ELSE LET a == Alloc(h.arrays)
           arr == elems \o [i \in 1..(cap - Len(elems)) |-> ZeroItem]
       IN [heap |-> WithArray(h, a, arr),
           slice |-> [ptr |-> a, len |-> Len(elems)]]

\* The capacity of a slice that grew to n elements one append at a time:
\* the runtime doubles it.
RECURSIVE GrownCap(_, _)
GrownCap(n, cap) ==
  IF n = 0 THEN 0 ELSE IF cap >= n THEN cap ELSE GrownCap(n, 2 * cap)

\* cap(sl)
Cap(h, sl) == IF sl.ptr = 0 THEN 0 ELSE Len(h.arrays[sl.ptr])

\* append(sl, item): in place when the capacity allows, else into a new
\* array of twice the capacity.  [heap, slice].
HeapAppend(h, sl, item) ==
  IF sl.len < Cap(h, sl)
  THEN [heap |-> WithArray(h, sl.ptr,
                           [h.arrays[sl.ptr] EXCEPT ![sl.len + 1] = item]),
        slice |-> [sl EXCEPT !.len = sl.len + 1]]
  ELSE NewArray(h, Append(Slice(h, sl), item),
                IF Cap(h, sl) = 0 THEN 1 ELSE 2 * Cap(h, sl))

\* &Dict{store: make(map[string]int), case_insensitive: ci}: [heap, ptr].
HeapNewDict(h, ci) ==
  LET m == Alloc(h.maps)
      p == Alloc(h.dicts)
  IN [heap |-> WithDict(WithMap(h, m, EmptyMap), p,
                        [items |-> [ptr |-> 0, len |-> 0], store |-> m,
                         case_insensitive |-> ci, default_value |-> NIL]),
      ptr |-> p]

\* p.maybeCompact(): self.store and self.items are set to a new map and a
\* new array; the old ones are left as they are.
HeapMaybeCompact(h, p) ==
  LET d == Load(h, p) IN
  IF Len(d.items) - Cardinality(DOMAIN d.store) < CompactThreshold THEN h
  ELSE LET c == maybeCompact(d)
           m == Alloc(h.maps)
           n == NewArray(h, c.items, GrownCap(Len(c.items), 1))
       IN WithDict(WithMap(n.heap, m, c.store), p,
                   [h.dicts[p] EXCEPT !.store = m, !.items = n.slice])

\* p.Delete(key): the map and the array of p are written in place.
HeapDelete(h, p, key) ==
  LET d == Load(h, p)
      nk == getKey(d, key)
  IN IF nk \in DOMAIN d.store
     THEN WithValue(WithMap(h, h.dicts[p].store, MapDelete(d.store, key)),
                    p, d.store[nk], DELETED)
     ELSE h

\* self.store[norm_key] = len(self.items); self.items = append(...);
\* self.maybeCompact()
HeapIndexAndAppend(h, p, key, value) ==
  LET d == Load(h, p)
      o == h.dicts[p]
      h1 == WithMap(h, o.store, MapSet(d.store, getKey(d, key), Len(d.items)))
      a == HeapAppend(h1, o.items, Item(key, value))
  IN HeapMaybeCompact(WithDict(a.heap, p, [o EXCEPT !.items = a.slice]), p)

\* p.Update(key, value)
HeapUpdate(h, p, key, value) ==
  LET d == Load(h, p)
      norm_key == getKey(d, key)
  IN IF norm_key \in DOMAIN d.store
     THEN WithValue(h, p, d.store[norm_key], value)
     ELSE HeapIndexAndAppend(h, p, key, value)

\* p.Set(key, value)
HeapSet(h, p, key, value) ==
  LET d == Load(h, p)
      norm_key == getKey(d, key)
      marked == IF norm_key \in DOMAIN d.store
                THEN WithValue(h, p, d.store[norm_key], DELETED)
                ELSE h
  IN HeapIndexAndAppend(marked, p, key, value)

\* for _, item := range its { p.Set(item.Key, item.Value) }
RECURSIVE HeapSetAll(_, _, _)
HeapSetAll(h, p, its) ==
  IF its = <<>> THEN h
  ELSE HeapSetAll(HeapSet(h, p, Head(its).Key, Head(its).Value), p, Tail(its))

\* A Copy that takes the slice of the receiver as it is: the copy and the
\* receiver then have one backing array.
HeapCopySharing(h, p) ==
  LET n == HeapNewDict(h, FALSE)
      o == h.dicts[p]
      m == n.heap.dicts[n.ptr].store
  IN [heap |-> WithDict(WithMap(n.heap, m, h.maps[o.store]), n.ptr,
                        [o EXCEPT !.store = m]),
      ptr |-> n.ptr]

\* p.Copy(): [heap, ptr].  append([]Item{}, self.items...) is a new array
\* with room for the items; the map of NewDict() is filled key by key.
HeapCopy(h, p) ==
  LET n == HeapNewDict(h, FALSE)
      o == h.dicts[p]
      m == n.heap.dicts[n.ptr].store
      a == NewArray(n.heap, Slice(h, o.items), o.items.len)
  IN [heap |-> WithDict(WithMap(a.heap, m, h.maps[o.store]), n.ptr,
                        [o EXCEPT !.store = m, !.items = a.slice]),
      ptr |-> n.ptr]

\* A SetCaseInsensitive that sets the flag of the receiver and returns it.
HeapSetCaseInsensitiveInPlace(h, p) ==
  [heap |-> WithDict(h, p, [h.dicts[p] EXCEPT !.case_insensitive = TRUE]),
   ptr |-> p]

\* p.SetCaseInsensitive(): [heap, ptr].
HeapSetCaseInsensitive(h, p) ==
  LET n == HeapNewDict(h, TRUE)
  IN [heap |-> HeapSetAll(n.heap, n.ptr, Items(Load(h, p))), ptr |-> n.ptr]

\* The heap without what neither the store at p nor the one at q (nil or
\* not) reaches.  Addresses are not observable: the map and the array of p
\* are renamed 1, those of q that p does not share 2.
Collect(h, p, q) ==
  LET ds == {p, q} \ {0}
      rm(x) == IF x = h.dicts[p].store THEN 1 ELSE 2
      ra(x) == IF x = 0 THEN 0 ELSE IF x = h.dicts[p].items.ptr THEN 1 ELSE 2
      ms == {h.dicts[x].store : x \in ds}
      as == {h.dicts[x].items.ptr : x \in ds} \ {0}
  IN [dicts |-> [x \in ds |->
                   [h.dicts[x] EXCEPT !.store = rm(@), !.items.ptr = ra(@)]],
      maps |-> [m \in {rm(x) : x \in ms} |->
                  h.maps[CHOOSE x \in ms : rm(x) = m]],
      arrays |-> [a \in {ra(x) : x \in as} |->
                    h.arrays[CHOOSE x \in as : ra(x) = a]]]

\* ------------------------------------------------------------------ state

VARIABLES
  dict,   \* the store under test (the receiver of the calls)
  other,  \* a second store: the argument of MergeFrom
  last,   \* the last call: [op, key, value, ret, ok]
  out,    \* the bytes the last MarshalJSON returned, a sequence of tokens
  copy,   \* a Copy() of dict in progress in another goroutine:
          \* [pc, res, seen]
  heap,   \* the backing arrays and the maps the stores of SpecCopy point to
  threads \* the goroutines of SpecLock: what each has left to run, the
          \* mutexes it holds, the items it has read

vars == <<dict, other, last, out, copy, heap, threads>>

\* No array and no map is allocated.
NoHeap == [dicts |-> <<>>, maps |-> <<>>, arrays |-> <<>>]

\* No goroutine is running.
NoThreads == <<>>

\* No Copy() is running.
NoCopy == [pc |-> "idle", res |-> NewDict, seen |-> {}]

Call(op, key, value, ret, ok) ==
  [op |-> op, key |-> key, value |-> value, ret |-> ret, ok |-> ok]

NoCall == Call("new", "", NIL, NIL, FALSE)

\* ------------------------------------------------------------------ Spec:
\* one store, sequential callers of Set, Update, Delete, Get and SetDefault.

\* The store after n calls d.Set(key, value).
RECURSIVE SetTimes(_, _, _, _)
SetTimes(d, key, value, n) ==
  IF n = 0 THEN d ELSE SetTimes(Set(d, key, value), key, value, n - 1)

\* A store one tombstone short of the compaction threshold: d after
\* Set("b", 1) nine times and Delete("b").
Aged(d) == Delete(SetTimes(d, "b", Val("int", 1), CompactThreshold - 1), "b")

\* Appends are followed while the backing slice is short, and in the aged
\* stores, where the compaction bounds its length.
MayAppend(d) ==
  Len(d.items) < MaxItems \/ Len(d.items) >= CompactThreshold - 1

\* NewDict() or NewDict().SetCaseInsensitive(), new or aged.
Init ==
  /\ dict \in {NewDict, NewCaseInsensitiveDict,
               Aged(NewDict), Aged(NewCaseInsensitiveDict)}
  /\ other = NewDict
  /\ last = NoCall
  /\ out = <<>>
  /\ copy = NoCopy
  /\ heap = NoHeap
  /\ threads = NoThreads

DoSet ==
  \E key \in KeyUniverse, value \in ValueUniverse :
    /\ MayAppend(dict)
    /\ dict' = Set(dict, key, value)
    /\ last' = Call("Set", key, value, NIL, FALSE)
    /\ UNCHANGED <<heap, threads, other, out, copy>>

DoUpdate ==
  \E key \in KeyUniverse, value \in ValueUniverse :
    /\ MayAppend(dict)
    /\ dict' = Update(dict, key, value)
    /\ last' = Call("Update", key, value, NIL, FALSE)
    /\ UNCHANGED <<heap, threads, other, out, copy>>

DoDelete ==
  \E key \in KeyUniverse :
    /\ dict' = Delete(dict, key)
    /\ last' = Call("Delete", key, NIL, NIL, FALSE)
    /\ UNCHANGED <<heap, threads, other, out, copy>>

DoGet ==
  \E key \in KeyUniverse :
    /\ last' = Call("Get", key, NIL, Get(dict, key).value, Get(dict, key).pres)
    /\ UNCHANGED <<heap, threads, dict, other, out, copy>>

DoSetDefault ==
  \E value \in DefaultUniverse :
    /\ dict' = SetDefault(dict, value)
    /\ last' = Call("SetDefault", "", value, NIL, FALSE)
    /\ UNCHANGED <<heap, threads, other, out, copy>>

Next == DoSet \/ DoUpdate \/ DoDelete \/ DoGet \/ DoSetDefault

Spec == Init /\ [][Next]_vars

\* ------------------------------------------------------------------ SpecMerge:
\* two stores, each of either case mode, filled by Set and Delete, and
\* dict.MergeFrom(other) and dict.MergeFrom(dict).

\* The value the callers of SpecMerge store in dict, and the one in other.
MergeValue == Val("int", 1)
OtherValue == Val("int", 2)

InitMerge ==
  /\ dict \in {NewDict, NewCaseInsensitiveDict}
  /\ other \in {NewDict, NewCaseInsensitiveDict}
  /\ last = NoCall
  /\ out = <<>>
  /\ copy = NoCopy
  /\ heap = NoHeap
  /\ threads = NoThreads

MergeSet ==
  \E key \in KeyUniverse :
    /\ Len(dict.items) < MaxMergeItems
    /\ dict' = Set(dict, key, MergeValue)
    /\ last' = Call("Set", "", NIL, NIL, FALSE)
    /\ UNCHANGED <<heap, threads, other, out, copy>>

MergeDelete ==
  \E key \in KeyUniverse :
    /\ dict' = Delete(dict, key)
    /\ last' = Call("Delete", "", NIL, NIL, FALSE)
    /\ UNCHANGED <<heap, threads, other, out, copy>>

MergeSetOther ==
  \E key \in KeyUniverse :
    /\ Len(other.items) < MaxMergeItems
    /\ other' = Set(other, key, OtherValue)
    /\ last' = Call("other.Set", "", NIL, NIL, FALSE)
    /\ UNCHANGED <<heap, threads, dict, out, copy>>

MergeDeleteOther ==
  \E key \in KeyUniverse :
    /\ other' = Delete(other, key)
    /\ last' = Call("other.Delete", "", NIL, NIL, FALSE)
    /\ UNCHANGED <<heap, threads, dict, out, copy>>

DoMergeFrom ==
  /\ Len(dict.items) <= MaxMergeItems
  /\ dict' = MergeFrom(dict, other)
  /\ last' = Call("MergeFrom", "", NIL, NIL, FALSE)
  /\ UNCHANGED <<heap, threads, other, out, copy>>

\* dict.MergeFrom(dict): the argument is the receiver.
DoMergeFromSelf ==
  /\ Len(dict.items) <= MaxMergeItems
  /\ dict' = MergeFrom(dict, dict)
  /\ last' = Call("MergeFromSelf", "", NIL, NIL, FALSE)
  /\ UNCHANGED <<heap, threads, other, out, copy>>

NextMerge ==
  \/ MergeSet \/ MergeDelete \/ MergeSetOther \/ MergeDeleteOther
  \/ DoMergeFrom \/ DoMergeFromSelf

SpecMerge == InitMerge /\ [][NextMerge]_vars

\* ------------------------------------------------------------------ SpecConc:
\* one goroutine calls dict.Copy() while another calls dict.Set and
\* dict.Delete.  Set and Delete hold the store's mutex from entry to return,
\* so each is one step.  Copy never takes the mutex: its statements are
\* steps of their own, and a Set or Delete can run between any two of them.
\* copy.seen collects the states dict had from the call of Copy to its return.

InitConc ==
  /\ dict \in {NewDict, NewCaseInsensitiveDict}
  /\ other = NewDict
  /\ last = NoCall
  /\ out = <<>>
  /\ copy = NoCopy
  /\ heap = NoHeap
  /\ threads = NoThreads

\* What a step of the other goroutine adds to copy.seen.
Seen(d) ==
  IF copy.pc \in {"items", "store", "flags"}
  THEN [copy EXCEPT !.seen = @ \cup {d}]
  ELSE copy

ConcSet ==
  \E key \in KeyUniverse :
    /\ Len(dict.items) < MaxConcItems
    /\ dict' = Set(dict, key, MergeValue)
    /\ copy' = Seen(dict')
    /\ last' = Call("Set", "", NIL, NIL, FALSE)
    /\ UNCHANGED <<heap, threads, other, out>>

ConcDelete ==
  \E key \in KeyUniverse :
    /\ dict' = Delete(dict, key)
    /\ copy' = Seen(dict')
    /\ last' = Call("Delete", "", NIL, NIL, FALSE)
    /\ UNCHANGED <<heap, threads, other, out>>

\* res := NewDict()
CopyCall ==
  /\ copy.pc = "idle"
  /\ copy' = [pc |-> "items", res |-> NewDict, seen |-> {dict}]
  /\ UNCHANGED <<heap, threads, dict, other, last, out>>

\* res.items = append([]Item{}, self.items...)
CopyItems ==
  /\ copy.pc = "items"
  /\ copy' = [copy EXCEPT !.pc = "store", !.res.items = dict.items]
  /\ UNCHANGED <<heap, threads, dict, other, last, out>>

\* for k, v := range self.store { res.store[k] = v }
CopyStore ==
  /\ copy.pc = "store"
  /\ copy' = [copy EXCEPT !.pc = "flags", !.res.store = dict.store]
  /\ UNCHANGED <<heap, threads, dict, other, last, out>>

\* res.case_insensitive = ...; res.default_value = ...; return res
CopyFlags ==
  /\ copy.pc = "flags"
  /\ copy' = [copy EXCEPT !.pc = "done",
                          !.res.case_insensitive = dict.case_insensitive,
                          !.res.default_value = dict.default_value]
  /\ UNCHANGED <<heap, threads, dict, other, last, out>>

\* The caller drops the copy; Copy can be called again.
CopyDrop ==
  /\ copy.pc = "done"
  /\ copy' = NoCopy
  /\ UNCHANGED <<heap, threads, dict, other, last, out>>

NextConc ==
  \/ ConcSet \/ ConcDelete
  \/ CopyCall \/ CopyItems \/ CopyStore \/ CopyFlags \/ CopyDrop

SpecConc == InitConc /\ [][NextConc]_vars

\* ------------------------------------------------------------------ SpecCodec:
\* a store is built by Set, Update and Delete, then encoded by MarshalJSON
\* or String, and the bytes of MarshalJSON are decoded into a fresh store.

CodecKeys == {"a", "b"}

\* A nested store with one pair.
NestedLive == Set(NewDict, "x", Val("int", 1))

\* The values the callers of SpecCodec store: every kind handledelim
\* produces, a Go int, the store itself, and a func (which json.Marshal
\* rejects).  No nested value holds a store that holds it.
CodecValues ==
  {Val("int", 1), Val("int", -1), Val("float64", 3), Val("float64", 2),
   Val("string", "x"), Val("string", "2023-01-02T03:04:05Z"),
   Val("string", "0000-00-00T00:00:00Z"), Val("bool", TRUE), Val("time", 1),
   NIL, Val("dict", NestedLive),
   Val("array", <<Val("int", 1), Val("string", "x")>>),
   Val("self", 0), Val("func", 0)}

Building == last.op \notin {"MarshalJSON", "String", "UnmarshalJSON"}

InitCodec ==
  /\ dict = NewDict
  /\ other = NewDict
  /\ last = NoCall
  /\ out = <<>>
  /\ copy = NoCopy
  /\ heap = NoHeap
  /\ threads = NoThreads

CodecSet ==
  \E key \in CodecKeys, value \in CodecValues :
    /\ Building
    /\ Len(dict.items) < MaxCodecItems
    /\ dict' = Set(dict, key, value)
    /\ last' = Call("Set", "", NIL, NIL, FALSE)
    /\ UNCHANGED <<heap, threads, other, out, copy>>

CodecUpdate ==
  \E key \in CodecKeys, value \in CodecValues :
    /\ Building
    /\ Len(dict.items) < MaxCodecItems
    /\ dict' = Update(dict, key, value)
    /\ last' = Call("Update", "", NIL, NIL, FALSE)
    /\ UNCHANGED <<heap, threads, other, out, copy>>

CodecDelete ==
  \E key \in CodecKeys :
    /\ Building
    /\ dict' = Delete(dict, key)
    /\ last' = Call("Delete", "", NIL, NIL, FALSE)
    /\ UNCHANGED <<heap, threads, other, out, copy>>

\* last.ok: MarshalJSON returned, with a nil error.
DoMarshalJSON ==
  /\ Building
  /\ LET m == MarshalJSON(dict, TRUE, dict, 1) IN
       /\ out' = m.buf
       /\ last' = Call("MarshalJSON", "", NIL, NIL, ~m.err /\ ~m.overflow)
  /\ UNCHANGED <<heap, threads, dict, other, copy>>

DoString ==
  /\ Building
  /\ LET m == String(dict) IN
       /\ out' = m.buf
       /\ last' = Call("String", "", NIL, NIL, ~m.err /\ ~m.overflow)
  /\ UNCHANGED <<heap, threads, dict, other, copy>>

\* fresh := NewDict(); err := fresh.UnmarshalJSON(out).  last.ok: err == nil.
DoUnmarshalJSON ==
  /\ last.op = "MarshalJSON" /\ last.ok
  /\ LET u == UnmarshalJSON(NewDict, out) IN
       /\ other' = u.d
       /\ last' = Call("UnmarshalJSON", "", NIL, NIL, ~u.err)
  /\ UNCHANGED <<heap, threads, dict, out, copy>>

NextCodec ==
  \/ CodecSet \/ CodecUpdate \/ CodecDelete
  \/ DoMarshalJSON \/ DoString \/ DoUnmarshalJSON

SpecCodec == InitCodec /\ [][NextCodec]_vars

\* ------------------------------------------------------------------ SpecGetters:
\* one store, of either case mode, filled by Set and Delete with values of
\* every kind the typed getters look at, a default configured or not, and
\* read by GetString, GetBool, GetInt64 and GetStrings.

GetterKeys == {"a", "A"}

GetterValues ==
  {Val("string", "x"), StringPtr("x"), NilStringPtr, Val("[]byte", "x"),
   Val("bool", TRUE), Val("int", 5), Val("uint8", 7), Val("float64", 3),
   Val("[]string", <<"x", "y">>), Val("[]int", <<1>>),
   Val("array", <<Val("string", "x"), Val("int", 1)>>),
   Val("array", <<NilStringPtr>>),
   NIL, Val("dict", NewDict)}

\* The defaults callers configure: none, or one of each type a getter returns.
GetterDefaults ==
  {NIL, Val("string", "d"), Val("bool", TRUE), Val("int", 7),
   Val("[]string", <<"d">>)}

InitGetters ==
  /\ dict \in {NewDict, NewCaseInsensitiveDict}
  /\ other = NewDict
  /\ last = NoCall
  /\ out = <<>>
  /\ copy = NoCopy
  /\ heap = NoHeap
  /\ threads = NoThreads

GetterSet ==
  \E key \in GetterKeys, value \in GetterValues :
    /\ Len(dict.items) < MaxGetterItems
    /\ dict' = Set(dict, key, value)
    /\ last' = Call("Set", "", NIL, NIL, FALSE)
    /\ UNCHANGED <<heap, threads, other, out, copy>>

GetterDelete ==
  \E key \in GetterKeys :
    /\ dict' = Delete(dict, key)
    /\ last' = Call("Delete", "", NIL, NIL, FALSE)
    /\ UNCHANGED <<heap, threads, other, out, copy>>

GetterSetDefault ==
  \E value \in GetterDefaults :
    /\ dict' = SetDefault(dict, value)
    /\ last' = Call("SetDefault", "", NIL, NIL, FALSE)
    /\ UNCHANGED <<heap, threads, other, out, copy>>

DoGetString ==
  \E key \in GetterKeys :
    /\ last' = Call("GetString", key, NIL,
                    GetString(dict, key).ret, GetString(dict, key).ok)
    /\ UNCHANGED <<heap, threads, dict, other, out, copy>>

DoGetBool ==
  \E key \in GetterKeys :
    /\ last' = Call("GetBool", key, NIL,
                    GetBool(dict, key).ret, GetBool(dict, key).ok)
    /\ UNCHANGED <<heap, threads, dict, other, out, copy>>

DoGetInt64 ==
  \E key \in GetterKeys :
    /\ last' = Call("GetInt64", key, NIL,
                    GetInt64(dict, key).ret, GetInt64(dict, key).ok)
    /\ UNCHANGED <<heap, threads, dict, other, out, copy>>

DoGetStrings ==
  \E key \in GetterKeys :
    /\ last' = Call("GetStrings", key, NIL,
                    GetStrings(dict, key).ret, GetStrings(dict, key).ok)
    /\ UNCHANGED <<heap, threads, dict, other, out, copy>>

NextGetters ==
  \/ GetterSet \/ GetterDelete \/ GetterSetDefault
  \/ DoGetString \/ DoGetBool \/ DoGetInt64 \/ DoGetStrings

SpecGetters == InitGetters /\ [][NextGetters]_vars

\* ------------------------------------------------------------------ SpecDecode:
\* a store of either case mode, new or aged, is filled by Set and Delete,
\* and a document of pairs, duplicate keys among them, is decoded into it.

\* The units of the members of an object with the keys ks from position i
\* on; the value of member i is the number i.
RECURSIVE DocumentMembers(_, _)
DocumentMembers(ks, i) ==
  IF i > Len(ks) THEN <<>>
  ELSE <<Unit("string", ks[i]), Colon, Unit("number", 2 * i)>>
         \o (IF i < Len(ks) THEN <<Comma>> ELSE <<>>)
         \o DocumentMembers(ks, i + 1)

\* The document {"k1": 1, "k2": 2, ...}.
Document(ks) == <<LBrace>> \o DocumentMembers(ks, 1) \o <<RBrace>>

\* The documents decoded: every sequence of at most MaxDocPairs keys.
Documents ==
  {Document(ks) : ks \in UNION {[1..n -> KeyUniverse] : n \in 0..MaxDocPairs}}

InitDecode ==
  /\ dict \in {NewDict, NewCaseInsensitiveDict,
               Aged(NewDict), Aged(NewCaseInsensitiveDict)}
  /\ other = NewDict
  /\ last = NoCall
  /\ out = <<>>
  /\ copy = NoCopy
  /\ heap = NoHeap
  /\ threads = NoThreads

\* The guard of the calls that append: the store is short, and still new or
\* aged (nothing was decoded into it).
MayDecode ==
  /\ last.op # "UnmarshalJSON"
  /\ \/ Len(dict.items) < MaxDecodeItems
     \/ Len(dict.items) \in
          (CompactThreshold - 1)..(CompactThreshold - 2 + MaxDecodeItems)

DecodeSet ==
  \E key \in KeyUniverse :
    /\ MayDecode
    /\ dict' = Set(dict, key, MergeValue)
    /\ last' = Call("Set", "", NIL, NIL, FALSE)
    /\ out' = <<>>
    /\ UNCHANGED <<heap, threads, other, copy>>

DecodeDelete ==
  \E key \in KeyUniverse :
    /\ last.op # "UnmarshalJSON"
    /\ dict' = Delete(dict, key)
    /\ last' = Call("Delete", "", NIL, NIL, FALSE)
    /\ out' = <<>>
    /\ UNCHANGED <<heap, threads, other, copy>>

\* err := dict.UnmarshalJSON(data).  last.ok: err == nil; out: data.
DoDecode ==
  \E data \in Documents :
    /\ last.op # "UnmarshalJSON"
    /\ LET u == UnmarshalJSON(dict, data) IN
         /\ dict' = u.d
         /\ last' = Call("UnmarshalJSON", "", NIL, NIL, ~u.err)
    /\ out' = data
    /\ UNCHANGED <<heap, threads, other, copy>>

NextDecode == DecodeSet \/ DecodeDelete \/ DoDecode

SpecDecode == InitDecode /\ [][NextDecode]_vars

\* ------------------------------------------------------------------ SpecCopy:
\* dict is a pointer to a store, filled by Set, Update and Delete; other is
\* nil, or the pointer dict.Copy() or dict.SetCaseInsensitive() returned.
\* Set, Update and Delete are then called through either pointer.

\* A pointer to a store with the fields of d, alone on the heap; its
\* backing array has the capacity the appends of len(d.items) entries, one
\* at a time, leave.  [heap, ptr].
OnHeap(d) ==
  LET n == HeapNewDict(NoHeap, d.case_insensitive)
      o == n.heap.dicts[n.ptr]
      a == NewArray(n.heap, d.items, GrownCap(Len(d.items), 1))
  IN [heap |-> WithDict(WithMap(a.heap, o.store, d.store), n.ptr,
                        [o EXCEPT !.items = a.slice,
                                  !.default_value = d.default_value]),
      ptr |-> n.ptr]

\* The keys of the calls of SpecCopy.
CopyKeys == {"a", "A"}

InitCopy ==
  /\ \E d \in {NewDict, SetDefault(NewCaseInsensitiveDict, Val("int", 0)),
               Aged(NewDict)} :
       heap = OnHeap(d).heap /\ dict = OnHeap(d).ptr
  /\ other = 0
  /\ last = NoCall
  /\ out = <<>>
  /\ copy = NoCopy
  /\ threads = NoThreads

\* The pointers calls are made through.
Pointers == {dict, other} \ {0}

\* The name of the call op through p.
Through(p, op) == IF p = dict THEN op ELSE "other." \o op

\* Appends are followed while the backing slice is short, and in the aged
\* stores, where the compaction bounds its length.
MayAppendTo(p) ==
  \/ Load(heap, p).items = <<>>
  \/ Len(Load(heap, p).items) < MaxCopyItems
  \/ Len(Load(heap, p).items) >= CompactThreshold - 1

PtrSet ==
  \E p \in Pointers, key \in CopyKeys :
    /\ MayAppendTo(p)
    /\ heap' = Collect(HeapSet(heap, p, key, IF p = dict THEN MergeValue ELSE OtherValue),
                       dict, other)
    /\ last' = Call(Through(p, "Set"), "", NIL, NIL, FALSE)
    /\ UNCHANGED <<threads, dict, other, out, copy>>

PtrUpdate ==
  \E p \in Pointers, key \in CopyKeys :
    /\ MayAppendTo(p)
    /\ heap' = Collect(HeapUpdate(heap, p, key, IF p = dict THEN MergeValue ELSE OtherValue),
                       dict, other)
    /\ last' = Call(Through(p, "Update"), "", NIL, NIL, FALSE)
    /\ UNCHANGED <<threads, dict, other, out, copy>>

PtrDelete ==
  \E p \in Pointers, key \in CopyKeys :
    /\ heap' = Collect(HeapDelete(heap, p, key), dict, other)
    /\ last' = Call(Through(p, "Delete"), "", NIL, NIL, FALSE)
    /\ UNCHANGED <<threads, dict, other, out, copy>>

\* other = dict.Copy()
DoCopy ==
  /\ LET c == HeapCopy(heap, dict) IN
       /\ other' = c.ptr
       /\ heap' = Collect(c.heap, dict, c.ptr)
  /\ last' = Call("Copy", "", NIL, NIL, FALSE)
  /\ UNCHANGED <<threads, dict, out, copy>>

\* other = dict.SetCaseInsensitive()
DoSetCaseInsensitive ==
  /\ LET c == HeapSetCaseInsensitive(heap, dict) IN
       /\ other' = c.ptr
       /\ heap' = Collect(c.heap, dict, c.ptr)
  /\ last' = Call("SetCaseInsensitive", "", NIL, NIL, FALSE)
  /\ UNCHANGED <<threads, dict, out, copy>>

NextCopy ==
  PtrSet \/ PtrUpdate \/ PtrDelete \/ DoCopy \/ DoSetCaseInsensitive

SpecCopy == InitCopy /\ [][NextCopy]_vars

\* ------------------------------------------------------------------ SpecLock:
\* two goroutines call into two stores; every Lock() and Unlock() of the
\* embedded sync.Mutex is a step of its own.  threads[t] is goroutine t:
\* the steps left of the call it is in, the mutexes it holds, the store its
\* SetCaseInsensitive is building, the call, and the calls it has begun.

Goroutines == {1, 2}

\* A *Dict stored as a value.  1 points to dict, 2 to other, 2 + t to the
\* store SetCaseInsensitive builds in goroutine t.
DictPtr(p) == Val("*Dict", p)

Deref(p) == IF p = 1 THEN dict ELSE IF p = 2 THEN other ELSE threads[p - 2].res

\* One step of a call: op on the store at pointer on.
Ins(op, on, arg) == [op |-> op, on |-> on, arg |-> arg]

\* self.Lock() ... defer self.Unlock(): the Unlock runs when the method
\* returns.
Deferred(p) == <<Ins("Unlock", p, 0)>>

\* p.Set(item.Key, item.Value)
SetCall(p, item) == <<Ins("Lock", p, 0), Ins("set", p, item)>> \o Deferred(p)

\* for _, item := range items { p.Set(item.Key, item.Value) }
RECURSIVE SetCalls(_, _)
SetCalls(p, its) ==
  IF its = <<>> THEN <<>> ELSE SetCall(p, Head(its)) \o SetCalls(p, Tail(its))

\* p.Items() up to its snapshot; what follows depends on the items.
ItemsCall(p, then, self) ==
  <<Ins("Lock", p, 0), Ins("Items", p, [then |-> then, self |-> self])>>

\* A MergeFrom whose loop runs before other.Items() has released the mutex
\* of other.
MergeFromUnderLock(self, o, its) == SetCalls(self, its) \o Deferred(o)

\* self.MergeFrom(o) from the snapshot of other.Items() on: Items returns,
\* then one Set per item.
MergeFromLoop(self, o, its) == Deferred(o) \o SetCalls(self, its)

\* self.MarshalJSON() from the snapshot of self.Items() on: Items returns;
\* an item holding self is skipped, json.Marshal of an item holding another
\* *Dict calls its MarshalJSON, json.Marshal of any other value takes no
\* mutex.
RECURSIVE MarshalJSONItems(_, _)
MarshalJSONItems(self, its) ==
  IF its = <<>> THEN <<>>
  ELSE LET v == Head(its).Value
       IN (IF v.kind = "*Dict" /\ v # DictPtr(self)
           THEN ItemsCall(v.n, "MarshalJSON", v.n)
           ELSE <<>>) \o MarshalJSONItems(self, Tail(its))

MarshalJSONLoop(self, its) == Deferred(self) \o MarshalJSONItems(self, its)

\* self.SetCaseInsensitive() from the snapshot of self.Items() on: one
\* res.Set per item.
SetCaseInsensitiveLoop(res, self, its) == Deferred(self) \o SetCalls(res, its)

\* The key GetString is called with, the data UnmarshalJSON is called with.
GetStringKey == "a"
LockDocument == Document(<<"b">>)

\* The pairs parseobject finds in LockDocument, in the order and with the
\* values it decodes them to, and its self.set(key, value) for each.
LockDocumentItems == Items(UnmarshalJSON(NewDict, LockDocument).d)

RECURSIVE ParseobjectSets(_, _)
ParseobjectSets(p, its) ==
  IF its = <<>> THEN <<>>
  ELSE <<Ins("set", p, Head(its))>> \o ParseobjectSets(p, Tail(its))

\* The steps of a call from its first line.
Program(c) ==
  CASE c.fn = "MergeFrom" -> ItemsCall(c.arg, "MergeFrom", c.self)
    [] c.fn = "MarshalJSON" -> ItemsCall(c.self, "MarshalJSON", c.self)
    [] c.fn = "SetCaseInsensitive" ->
         ItemsCall(c.self, "SetCaseInsensitive", c.self)
    [] c.fn = "GetString" ->
         <<Ins("Lock", c.self, 0), Ins("Get", c.self, GetStringKey)>>
           \o Deferred(c.self)
    [] c.fn = "UnmarshalJSON" ->
         <<Ins("Lock", c.self, 0)>>
           \o ParseobjectSets(c.self, LockDocumentItems) \o Deferred(c.self)

Invoke(fn, self, arg) == [fn |-> fn, self |-> self, arg |-> arg]

\* The calls goroutine t makes: it calls into store t.
Calls(t) ==
  {Invoke("MergeFrom", t, o) : o \in {1, 2}}
    \cup {Invoke("MarshalJSON", t, 0), Invoke("SetCaseInsensitive", t, 0),
          Invoke("GetString", t, 0), Invoke("UnmarshalJSON", t, 0)}

Idle == [todo |-> <<>>, holds |-> {}, res |-> NewCaseInsensitiveDict,
         call |-> Invoke("", 0, 0), calls |-> 0]

\* dict holds itself.  other holds no *Dict until a merge brings it one, so
\* no store comes to hold a store that holds it.
InitLock ==
  /\ dict = Set(Set(NewDict, "a", MergeValue), "self", DictPtr(1))
  /\ other \in {Set(NewDict, "b", OtherValue),
                Set(NewCaseInsensitiveDict, "A", OtherValue)}
  /\ last = NoCall
  /\ out = <<>>
  /\ copy = NoCopy
  /\ heap = NoHeap
  /\ threads = [t \in Goroutines |-> Idle]

\* The mutexes held, by any goroutine.
Held == UNION {threads[t].holds : t \in Goroutines}

Busy(t) == threads[t].todo # <<>>

\* The next step of goroutine t is op.
At(t, op) == Busy(t) /\ Head(threads[t].todo).op = op

\* Goroutine t calls a method.
Begin(t) ==
  \E c \in Calls(t) :
    /\ ~Busy(t)
    /\ threads[1].calls + threads[2].calls < MaxCalls
    /\ threads' = [threads EXCEPT ![t] =
                     [todo |-> Program(c), holds |-> {},
                      res |-> NewCaseInsensitiveDict, call |-> c,
                      calls |-> @.calls + 1]]
    /\ last' = Call(c.fn, "", NIL, NIL, FALSE)
    /\ UNCHANGED <<heap, dict, other, out, copy>>

\* sync.Mutex.Lock(): returns once no goroutine holds the mutex, the caller
\* included.
Lock(t) ==
  /\ At(t, "Lock")
  /\ Head(threads[t].todo).on \notin Held
  /\ threads' = [threads EXCEPT ![t].todo = Tail(@),
                                ![t].holds = @ \cup {Head(threads[t].todo).on}]
  /\ UNCHANGED <<heap, dict, other, last, out, copy>>

\* sync.Mutex.Unlock()
Unlock(t) ==
  /\ At(t, "Unlock")
  /\ threads' = [threads EXCEPT ![t].todo = Tail(@),
                                ![t].holds = @ \ {Head(threads[t].todo).on}]
  /\ UNCHANGED <<heap, dict, other, last, out, copy>>

\* The body of Items(): the snapshot of the live items; the caller's loop
\* over it follows.
LockedItems(t) ==
  /\ At(t, "Items")
  /\ LET ins == Head(threads[t].todo)
         its == Items(Deref(ins.on))
         loop == CASE ins.arg.then = "MergeFrom" ->
                        MergeFromLoop(ins.arg.self, ins.on, its)
                   [] ins.arg.then = "MarshalJSON" ->
                        MarshalJSONLoop(ins.on, its)
                   [] ins.arg.then = "SetCaseInsensitive" ->
                        SetCaseInsensitiveLoop(2 + t, ins.on, its)
     IN threads' = [threads EXCEPT ![t].todo = loop \o Tail(@)]
  /\ UNCHANGED <<heap, dict, other, last, out, copy>>

\* self.set(key, value), called by Set and by parseobject with the mutex
\* held.
LockedSet(t) ==
  /\ At(t, "set")
  /\ LET ins == Head(threads[t].todo)
         d == set(Deref(ins.on), ins.arg.Key, ins.arg.Value)
     IN /\ dict' = IF ins.on = 1 THEN d ELSE dict
        /\ other' = IF ins.on = 2 THEN d ELSE other
        /\ threads' = [threads EXCEPT ![t].todo = Tail(@),
                                      ![t].res = IF ins.on > 2 THEN d ELSE @]
  /\ UNCHANGED <<heap, last, out, copy>>

\* The body of Get() and to_string of what it returned.
LockedGet(t) ==
  /\ At(t, "Get")
  /\ LET ins == Head(threads[t].todo)
         r == GetString(Deref(ins.on), ins.arg)
     IN last' = Call("GetString", ins.arg, NIL, r.ret, r.ok)
  /\ threads' = [threads EXCEPT ![t].todo = Tail(@)]
  /\ UNCHANGED <<heap, dict, other, out, copy>>

\* The steps of a call that has begun.
Run(t) ==
  Lock(t) \/ Unlock(t) \/ LockedItems(t) \/ LockedSet(t) \/ LockedGet(t)

NextLock == \E t \in Goroutines : Begin(t) \/ Run(t)

\* A goroutine that can take a step takes one: the scheduler runs every
\* runnable goroutine, and a mutex left free is given to a waiter.
SpecLock ==
  InitLock /\ [][NextLock]_vars /\ \A t \in Goroutines : WF_vars(Run(t))

\* ------------------------------------------------------------------ claims

\* The keys of a sequence of keys that do not normalize, in d, to the key k
\* normalizes to.
RECURSIVE KeysWithout(_, _, _)
KeysWithout(d, ks, k) ==
  IF ks = <<>> THEN <<>>
  ELSE IF getKey(d, Head(ks)) = getKey(d, k) THEN KeysWithout(d, Tail(ks), k)
  ELSE <<Head(ks)>> \o KeysWithout(d, Tail(ks), k)

Hit(value) == [value |-> value, pres |-> TRUE]

\* The live entries of d whose key normalizes like key.
LiveEntries(d, key) ==
  {i \in 1..Len(d.items) :
     ~IsDeleted(d.items[i]) /\ getKey(d, d.items[i].Key) = getKey(d, key)}

\* C1: after Set(k, v), Keys() is the previous Keys() without the entry whose
\* normalized key is that of k, followed by k, and Get(k) returns (v, true).
C1_SetMovesKeyToEnd ==
  [][last'.op = "Set" =>
       /\ Keys(dict') = Append(KeysWithout(dict, Keys(dict), last'.key), last'.key)
       /\ Get(dict', last'.key) = Hit(last'.value)]_vars

\* A Set of a key that was live, with another key after it, has moved it.
C1_Witness ==
  /\ last.op = "Set"
  /\ Len(Keys(dict)) >= 2
  /\ Keys(dict)[Len(Keys(dict))] = last.key
  /\ \E i \in 1..Len(dict.items), j \in 1..Len(dict.items) :
       /\ i < j /\ j < Len(dict.items)
       /\ IsDeleted(dict.items[i])
       /\ getKey(dict, dict.items[i].Key) = getKey(dict, last.key)
       /\ ~IsDeleted(dict.items[j])

\* C2: Update(k, x) of a present key leaves Keys() as it was and makes Get(k)
\* return (x, true); Update of an absent key appends k at the end of Keys().
C2_UpdateInPlaceOrAppend ==
  [][last'.op = "Update" =>
       /\ Get(dict', last'.key) = Hit(last'.value)
       /\ IF Get(dict, last'.key).pres
             THEN Keys(dict') = Keys(dict)
             ELSE Keys(dict') = Append(Keys(dict), last'.key)]_vars

\* C3: Delete(k) of a key that Get hits makes Get(k) miss, Len() one less and
\* Keys() the previous Keys() without k; Delete of a key that Get misses
\* changes nothing.
C3_DeleteRemovesKey ==
  [][last'.op = "Delete" =>
       IF Get(dict, last'.key).pres
       THEN /\ ~Get(dict', last'.key).pres
            /\ DictLen(dict') = DictLen(dict) - 1
            /\ Keys(dict') = KeysWithout(dict, Keys(dict), last'.key)
       ELSE dict' = dict]_vars

\* C4: on a case-insensitive store, after Set(k, v) every key with the
\* lowercase form of k hits with value v, and Keys() reports k as stored.
C4_CaseInsensitiveAliasing ==
  (last.op = "Set" /\ dict.case_insensitive) =>
     /\ \A k2 \in KeyUniverse :
          ToLower(k2) = ToLower(last.key) => Get(dict, k2) = Hit(last.value)
     /\ Keys(dict) # <<>>
     /\ Keys(dict)[Len(Keys(dict))] = last.key

\* Set("A", v) on a case-insensitive store: "a" hits, Keys() ends in "A".
C4_Witness ==
  /\ last.op = "Set" /\ dict.case_insensitive /\ last.key = "A"
  /\ Get(dict, "a").pres
  /\ Len(Keys(dict)) >= 2

\* C5: Get of a key with no live entry returns (default_value, false), which
\* is (nil, false) when no default is configured; Get of a key with a live
\* entry returns (its value, true), also when the value is nil.
C5_GetMissAndDefault ==
  last.op = "Get" =>
     IF LiveEntries(dict, last.key) = {}
     THEN last.ret = dict.default_value /\ ~last.ok
     ELSE /\ last.ok
          /\ \E i \in LiveEntries(dict, last.key) : last.ret = dict.items[i].Value


\* The keys of ks that normalize, in d, like none of the keys of bs.
RECURSIVE KeysNotIn(_, _, _)
KeysNotIn(d, ks, bs) ==
  IF ks = <<>> THEN <<>>
  ELSE IF \E i \in 1..Len(bs) : getKey(d, bs[i]) = getKey(d, Head(ks))
       THEN KeysNotIn(d, Tail(ks), bs)
       ELSE <<Head(ks)>> \o KeysNotIn(d, Tail(ks), bs)

\* The positions of bs whose key no later key of bs normalizes, in d, like.
LastOccurrences(d, bs) ==
  {i \in 1..Len(bs) :
     \A j \in 1..Len(bs) : j > i => getKey(d, bs[j]) # getKey(d, bs[i])}

\* The keys of bs at the positions of LastOccurrences, in order.
RECURSIVE KeepLast(_, _, _)
KeepLast(d, bs, i) ==
  IF i > Len(bs) THEN <<>>
  ELSE IF i \in LastOccurrences(d, bs) THEN <<bs[i]>> \o KeepLast(d, bs, i + 1)
  ELSE KeepLast(d, bs, i + 1)

\* C10 as stated: after a.MergeFrom(b), a.Keys() is a's previous keys that
\* match no key of b, followed by b's keys in b's order; every key of b maps
\* in a to b's value; b is unchanged.
C10_MergeAppendsAllKeys ==
  [][last'.op = "MergeFrom" =>
       /\ Keys(dict') = KeysNotIn(dict, Keys(dict), Keys(other)) \o Keys(other)
       /\ \A i \in 1..Len(Keys(other)) :
            Get(dict', Keys(other)[i]) = Hit(Values(other)[i])
       /\ other' = other]_vars

\* C10 amended: after a.MergeFrom(b), a.Keys() is a's previous keys that
\* match no key of b, followed by b's keys in b's order, where of the keys of
\* b that a normalizes to the same key only the last is kept; every kept key
\* maps in a to b's value; b is unchanged (when b is a itself, its Keys() and
\* Values() are); a deleted entry of b is not merged.
C10_MergeAppendsLastOccurrences ==
  [][last'.op \in {"MergeFrom", "MergeFromSelf"} =>
       LET b == IF last'.op = "MergeFrom" THEN other ELSE dict IN
       /\ Keys(dict') = KeysNotIn(dict, Keys(dict), Keys(b))
                          \o KeepLast(dict, Keys(b), 1)
       /\ \A i \in LastOccurrences(dict, Keys(b)) :
            Get(dict', Keys(b)[i]) = Hit(Values(b)[i])
       /\ \A i \in 1..Len(Values(dict')) : Values(dict')[i] # DELETED
       /\ other' = other
       /\ last'.op = "MergeFromSelf" =>
            Keys(dict') = Keys(dict) /\ Values(dict') = Values(dict)]_vars

\* A merge that moved a key of dict from the front to the end, behind a
\* key only dict has, and had a deleted entry of other to skip.
C10_Witness ==
  /\ last.op = "MergeFrom"
  /\ Len(dict.items) = 3
  /\ IsDeleted(dict.items[1])
  /\ dict.items[2].Value = MergeValue
  /\ dict.items[3].Value = OtherValue
  /\ getKey(dict, dict.items[3].Key) = getKey(dict, dict.items[1].Key)
  /\ Keys(other) = <<dict.items[3].Key>>
  /\ \E i \in 1..Len(other.items) : IsDeleted(other.items[i])

\* C6: the calls on one store are serialized: what a call returns is what
\* some sequential order of the calls produces.  For Copy(): the store it
\* returns is the store as it was at some moment between its call and its
\* return.
C6_CopyIsSerialized ==
  copy.pc = "done" => copy.res \in copy.seen

\* The pairs the encoder is to emit for the items its, each as the units
\* "key" : value, a value json.Marshal rejects as null; an item whose value
\* is the store itself has no pair.
RECURSIVE ExpectedPairs(_, _)
ExpectedPairs(its, root) ==
  IF its = <<>> THEN <<>>
  ELSE LET item == Head(its)
           m == Marshal(item.Value, root, 1)
           pair == <<Unit("string", item.Key), Colon>>
                     \o (IF m.err THEN <<Null>> ELSE m.buf)
       IN IF item.Value.kind = "self" THEN ExpectedPairs(Tail(its), root)
          ELSE <<pair>> \o ExpectedPairs(Tail(its), root)

\* The pairs with one comma between two of them.
RECURSIVE Join(_)
Join(pairs) ==
  IF pairs = <<>> THEN <<>>
  ELSE IF Len(pairs) = 1 THEN pairs[1]
  ELSE pairs[1] \o <<Comma>> \o Join(Tail(pairs))

\* C7: in every state of the store the encoder's output is a valid object
\* document: "{", the pairs of the emitted items in iteration order with
\* one comma between two of them, "}"; it is "{}" when no pair is emitted.
C7_EncoderOutputValid ==
  last.op \in {"MarshalJSON", "String"} =>
     /\ ValidValue(out)
     /\ out = <<LBrace>> \o Join(ExpectedPairs(Items(dict), dict)) \o <<RBrace>>

\* Equal values, a number kind widened to another aside, and a timestamp
\* string equal to the time it denotes.
RECURSIVE WidenedEqual(_, _)
WidenedEqual(v, w) ==
  CASE IsNumber(v) /\ IsNumber(w) -> Halves(v) = Halves(w)
    [] v.kind = "string" /\ w.kind = "time" -> TimeString(w.n) = v.n
    [] v.kind = "dict" /\ w.kind = "dict" ->
         /\ Keys(v.n) = Keys(w.n)
         /\ \A i \in 1..Len(Values(v.n)) :
              WidenedEqual(Values(v.n)[i], Values(w.n)[i])
    [] v.kind = "array" /\ w.kind = "array" ->
         /\ Len(v.n) = Len(w.n)
         /\ \A i \in 1..Len(v.n) : WidenedEqual(v.n[i], w.n[i])
    [] v.kind = w.kind -> v.n = w.n
    [] OTHER -> FALSE

\* The kinds of value the round trip is claimed for.
RoundTripKinds ==
  {"string", "bool", "int", "int64", "uint64", "float64", "dict", "array",
   "time", "nil"}

\* C8: decoding the encoding of a store with no self-reference into a fresh
\* store succeeds and gives the same Keys() and equal (possibly widened)
\* values.
C8_RoundTrip ==
  (/\ last.op = "UnmarshalJSON"
   /\ \A i \in 1..Len(Values(dict)) : Values(dict)[i].kind \in RoundTripKinds)
  => /\ last.ok
     /\ Keys(other) = Keys(dict)
     /\ \A i \in 1..Len(Values(dict)) :
          WidenedEqual(Values(dict)[i], Values(other)[i])

\* The units of a document between its opening "{" and its closing "}".
Body(buf) ==
  LET front == IF buf # <<>> /\ Head(buf).t = "{" THEN Tail(buf) ELSE buf
  IN IF front # <<>> /\ front[Len(front)].t = "}"
     THEN SubSeq(front, 1, Len(front) - 1) ELSE front

HoldsItself(d) == \E i \in 1..Len(Values(d)) : Values(d)[i].kind = "self"

\* C9: encoding a store that holds itself as a value returns, with a nil
\* error, and emits the pair of every other live item, in iteration order,
\* and no pair for the item that is the store.
C9_SelfReferenceIsSkipped ==
  (last.op = "MarshalJSON" /\ HoldsItself(dict)) =>
     /\ last.ok
     /\ Body(out) = Join(ExpectedPairs(Items(dict), dict))

\* A store with the pair (a, itself) and a later pair has been encoded.
C9_Witness ==
  /\ last.op = "MarshalJSON" /\ last.ok
  /\ Len(Values(dict)) = 2
  /\ Values(dict)[1].kind = "self"
  /\ Values(dict)[2] = Val("int", 1)
  /\ Len(out) = 5

\* The literal keys readers see for the key: those of its live entries.
ReportedKeys(d, key) == {d.items[i].Key : i \in LiveEntries(d, key)}

\* C13 as stated: on a case-insensitive store a Set or Update of a key that
\* has a live entry, in whatever casing, leaves the literal key readers see
\* for it as it was (the first casing inserted stays the reported one).
C13_FirstCasingIsReported ==
  [][(/\ last'.op \in {"Set", "Update"}
      /\ dict.case_insensitive
      /\ LiveEntries(dict, last'.key) # {})
     => ReportedKeys(dict', last'.key) = ReportedKeys(dict, last'.key)]_vars

\* C13 amended: on a case-insensitive store the literal key readers see for
\* a normalized key is the casing of the last Set of it, or of an Update
\* that found no entry for it in the index; an Update that finds the key in
\* the index keeps the literal key of the entry it overwrites; the literal
\* keys of the other normalized keys stay as they were.
C13_LastSetCasingIsReported ==
  [][(last'.op \in {"Set", "Update"} /\ dict.case_insensitive) =>
       LET k == last'.key
           nk == getKey(dict, k)
       IN /\ IF last'.op = "Set" \/ nk \notin DOMAIN dict.store
             THEN ReportedKeys(dict', k) = {k}
             ELSE ReportedKeys(dict', k) = {dict.items[dict.store[nk] + 1].Key}
          /\ \A k2 \in KeyUniverse :
               ToLower(k2) # ToLower(k) =>
                 ReportedKeys(dict', k2) = ReportedKeys(dict, k2)]_vars

\* Set("A", v) has replaced an entry stored as "a", with another key live,
\* on a case-insensitive store.
C13_Witness ==
  /\ last.op = "Set" /\ last.key = "A" /\ dict.case_insensitive
  /\ Len(dict.items) >= 3
  /\ dict.items[Len(dict.items)].Key = "A"
  /\ \E i \in 1..(Len(dict.items) - 1) :
       dict.items[i].Key = "a" /\ IsDeleted(dict.items[i])
  /\ Keys(dict) = <<"b", "A">>

\* The tombstones the backing slice retains.
Tombstones(d) == {i \in 1..Len(d.items) : IsDeleted(d.items[i])}

\* C15: the index is consistent with the entries: every index entry names a
\* position inside the entries whose entry is not deleted and whose key
\* normalizes to the index key, every live entry is indexed, and so Len()
\* is the number of keys Keys() returns.
C15_IndexConsistent ==
  /\ \A n \in DOMAIN dict.store :
       /\ dict.store[n] + 1 \in 1..Len(dict.items)
       /\ ~IsDeleted(dict.items[dict.store[n] + 1])
       /\ getKey(dict, dict.items[dict.store[n] + 1].Key) = n
  /\ \A i \in 1..Len(dict.items) :
       ~IsDeleted(dict.items[i]) =>
          /\ getKey(dict, dict.items[i].Key) \in DOMAIN dict.store
          /\ dict.store[getKey(dict, dict.items[i].Key)] = i - 1
  /\ DictLen(dict) = Len(Keys(dict))

\* C16: every normalized key has at most one live entry: no two keys of
\* Keys() have the same normalized form.
C16_OneLiveEntryPerKey ==
  /\ \A k \in KeyUniverse : Cardinality(LiveEntries(dict, k)) <= 1
  /\ \A i \in 1..Len(Keys(dict)), j \in 1..Len(Keys(dict)) :
       getKey(dict, Keys(dict)[i]) = getKey(dict, Keys(dict)[j]) => i = j

\* A store where a key was set again, in another casing, after its first
\* entry was tombstoned, with another key live beside it.
C16_Witness ==
  /\ dict.case_insensitive
  /\ last.op \in {"Set", "Update"}
  /\ Len(Keys(dict)) = 2
  /\ \E i \in Tombstones(dict) :
       /\ LiveEntries(dict, dict.items[i].Key) # {}
       /\ \E j \in LiveEntries(dict, dict.items[i].Key) :
            dict.items[j].Key # dict.items[i].Key

\* C17 as stated: at every observation point after Set, Update and Delete
\* calls the backing slice retains at most 9 tombstones.
C17_AtMostNineTombstones ==
  Cardinality(Tombstones(dict)) <= CompactThreshold - 1

\* The call appended an entry: a Set, or an Update of a key the index lacked.
Appended ==
  \/ last'.op = "Set"
  \/ last'.op = "Update" /\ getKey(dict, last'.key) \notin DOMAIN dict.store

\* C17 amended: right after every completed Set, and every Update that
\* appends, the backing slice has at most 9 entries more than the index has
\* keys (len(items) - Len() <= 9).
C17_AtMostNineUnindexedAfterAppend ==
  [][Appended => Len(dict'.items) - DictLen(dict') <= CompactThreshold - 1]_vars

\* A Set has left the slice with exactly 9 entries more than the index, all
\* of them tombstones.
C17_Witness ==
  /\ last.op = "Set"
  /\ Len(dict.items) - DictLen(dict) = CompactThreshold - 1
  /\ Cardinality(Tombstones(dict)) = CompactThreshold - 1

\* What readers see of a store.
Observed(d) ==
  [keys |-> Keys(d), values |-> Values(d), len |-> DictLen(d),
   get |-> [k \in KeyUniverse |-> Get(d, k)]]

\* A plain ordered map's Set: the entry of the key is tombstoned, the new
\* one appended and indexed, and nothing is ever compacted.
SetWithoutCompaction(d, key, value) ==
  LET norm_key == getKey(d, key)
      marked == IF norm_key \in DOMAIN d.store
                THEN [d.items EXCEPT ![d.store[norm_key] + 1].Value = DELETED]
                ELSE d.items
  IN [d EXCEPT !.store = MapSet(d.store, norm_key, Len(d.items)),
               !.items = Append(marked, Item(key, value))]

\* C18: when at least 10 tombstones are outstanding the next Set compacts:
\* the backing slice then holds live entries only, and Keys(), Values(),
\* Len() and every Get are what the same Set gives without compaction.
C18_CompactionIsTransparent ==
  [][(last'.op = "Set" /\ Cardinality(Tombstones(dict)) >= CompactThreshold) =>
       /\ Tombstones(dict') = {}
       /\ Observed(dict') =
            Observed(SetWithoutCompaction(dict, last'.key, last'.value))]_vars

TypedGetters == {"GetString", "GetBool", "GetInt64", "GetStrings"}

\* The value is of a kind the getter's type is made from.
Coercible(op, v) ==
  CASE op = "GetString" -> v.kind \in {"string", "*string", "[]byte"}
    [] op = "GetBool" -> v.kind = "bool"
    [] op = "GetInt64" -> v.kind \in Int64Kinds
    [] OTHER -> v.kind \in {"array", "[]string", "[]byte", "[]int"}

\* The zero or empty result of the getter.
ZeroResult(op) ==
  CASE op = "GetString" -> Val("string", "")
    [] op = "GetBool" -> Val("bool", FALSE)
    [] op = "GetInt64" -> Val("int64", 0)
    [] OTHER -> NIL

\* C14: a typed getter never fails; it reports a hit exactly when the key
\* has a live entry whose value is of a kind coercible to its type, and
\* otherwise a miss with the zero or empty result (never the default).
C14_TypedGettersMissWithoutError ==
  last.op \in TypedGetters =>
     /\ last.ret # PANIC
     /\ last.ok <=>
          \E i \in LiveEntries(dict, last.key) :
             Coercible(last.op, dict.items[i].Value)
     /\ ~last.ok => last.ret = ZeroResult(last.op)

\* The pairs of a document of Documents: its keys, and the values
\* handledelim makes of its numbers.
DocPairCount(buf) == (Len(buf) - 1) \div 4
DocKeys(buf) == [i \in 1..DocPairCount(buf) |-> buf[4 * i - 2].v]
DocValues(buf) ==
  [i \in 1..DocPairCount(buf) |-> Val("uint64", buf[4 * i].v \div 2)]
DocItems(buf) ==
  [i \in 1..DocPairCount(buf) |-> Item(DocKeys(buf)[i], DocValues(buf)[i])]

\* C20: decoding an object, into a store that may be populated, gives the
\* Keys() and Values() that Set(key, value) for each pair in input order
\* gives: the store's keys that the document lacks, then the document's
\* keys, each at its last occurrence and with its last value.
C20_DecodeInsertsWithSetSemantics ==
  [][last'.op = "UnmarshalJSON" =>
       LET ks == DocKeys(out')
           byset == SetAll(dict, DocItems(out'))
       IN /\ last'.ok
          /\ Keys(dict') = Keys(byset)
          /\ Values(dict') = Values(byset)
          /\ Keys(dict') = KeysNotIn(dict, Keys(dict), ks) \o KeepLast(dict, ks, 1)
          /\ \A i \in LastOccurrences(dict, ks) :
               Get(dict', ks[i]) = Hit(DocValues(out')[i])]_vars

\* {"a": 1, "b": 2, "A": 3} was decoded into a case-insensitive store that
\* held a: the first two entries of a are tombstones.
C20_Witness ==
  /\ last.op = "UnmarshalJSON" /\ last.ok
  /\ dict.case_insensitive
  /\ DocKeys(out) = <<"a", "b", "A">>
  /\ Len(dict.items) = 4
  /\ IsDeleted(dict.items[1]) /\ IsDeleted(dict.items[2])
  /\ Keys(dict) = <<"b", "A">>
  /\ Values(dict) = <<Val("uint64", 2), Val("uint64", 3)>>

\* The stores the pointers of SpecCopy point to.
Receiver == Load(heap, dict)
TheCopy == Load(heap, other)

\* C11: Copy() returns a store with the Keys(), Values(), case flag and
\* default of the receiver, and its own struct, backing array and map; a
\* Set, Update or Delete (compaction included) through one of the two
\* pointers leaves Keys(), Values(), Len() and every Get of the other store
\* as they were.
C11_CopyIsIndependent ==
  [][/\ last'.op = "Copy" =>
          /\ Keys(TheCopy') = Keys(Receiver)
          /\ Values(TheCopy') = Values(Receiver)
          /\ TheCopy'.case_insensitive = Receiver.case_insensitive
          /\ TheCopy'.default_value = Receiver.default_value
          /\ Receiver' = Receiver
          /\ other' \notin {0, dict}
          /\ heap'.dicts[other'].store # heap'.dicts[dict].store
          /\ heap'.dicts[other'].items.ptr # 0 =>
               heap'.dicts[other'].items.ptr # heap'.dicts[dict].items.ptr
     /\ last'.op \in {"other.Set", "other.Update", "other.Delete"} =>
          Observed(Receiver') = Observed(Receiver)
     /\ (last'.op \in {"Set", "Update", "Delete"} /\ other # 0) =>
          Observed(TheCopy') = Observed(TheCopy)]_vars

\* A copy of a case-sensitive receiver that held a and A: Delete("a")
\* through the copy has tombstoned the copy's entry, and the receiver still
\* has both keys.
C11_Witness ==
  /\ last.op = "other.Delete"
  /\ other # 0
  /\ ~TheCopy.case_insensitive
  /\ Keys(Receiver) = <<"a", "A">>
  /\ Len(TheCopy.items) = 2
  /\ IsDeleted(TheCopy.items[1])
  /\ TheCopy.items[2] = Item("A", MergeValue)

\* C12: SetCaseInsensitive() returns a new store, not the receiver: a
\* case-insensitive store holding the live items of the receiver inserted
\* in iteration order (of the keys with one lowercase form the last stays,
\* with its value); the receiver's entries, index, Keys(), Len() and case
\* flag are as before the call.
C12_SetCaseInsensitiveReturnsNewStore ==
  [][last'.op = "SetCaseInsensitive" =>
       LET ks == Keys(Receiver)
           ci == NewCaseInsensitiveDict
       IN /\ other' \notin {0, dict}
          /\ Receiver' = Receiver
          /\ Keys(Receiver') = ks /\ DictLen(Receiver') = DictLen(Receiver)
          /\ TheCopy'.case_insensitive
          /\ Keys(TheCopy') = KeepLast(ci, ks, 1)
          /\ \A i \in LastOccurrences(ci, ks) :
               Get(TheCopy', ks[i]) = Hit(Values(Receiver)[i])
          /\ DictLen(TheCopy') = Cardinality(LastOccurrences(ci, ks))
          /\ Observed(TheCopy') = Observed(SetAll(ci, Items(Receiver)))]_vars

\* SetCaseInsensitive() of a case-sensitive receiver with the live keys a
\* and A and a deleted entry: the new store has A only, the entry of a
\* tombstoned.
C12_Witness ==
  /\ last.op = "SetCaseInsensitive"
  /\ ~Receiver.case_insensitive
  /\ Keys(Receiver) = <<"a", "A">>
  /\ Tombstones(Receiver) # {}
  /\ TheCopy.case_insensitive
  /\ Len(TheCopy.items) = 2
  /\ IsDeleted(TheCopy.items[1])
  /\ Keys(TheCopy) = <<"A">>

\* No goroutine is about to take a mutex while it holds one, and none holds
\* two.
NoLockWhileHolding ==
  \A t \in Goroutines :
    /\ Cardinality(threads[t].holds) <= 1
    /\ At(t, "Lock") => threads[t].holds = {}

\* C19: no operation takes a store's mutex while its goroutine holds a
\* store's mutex (MergeFrom, SetCaseInsensitive, the typed getters, encoding
\* and decoding lock and unlock step by step), and every call that has
\* begun returns: a.MergeFrom(a), a.MergeFrom(b) beside b.MergeFrom(a) and
\* the encoding of a store that holds itself included.
C19_NoNestedLockAndCallsReturn ==
  /\ []NoLockWhileHolding
  /\ \A t \in Goroutines : Busy(t) ~> ~Busy(t)

\* a.MergeFrom(b) beside b.MergeFrom(a): goroutine 1 holds the mutex of a
\* for a Set, goroutine 2 waits for it in a.Items().
C19_Witness ==
  /\ threads[1].call = Invoke("MergeFrom", 1, 2)
  /\ threads[2].call = Invoke("MergeFrom", 2, 1)
  /\ threads[1].holds = {1} /\ At(1, "set")
  /\ At(2, "Lock") /\ Head(threads[2].todo).on = 1
  /\ threads[2].holds = {}
====
